---- MODULE Spec2Model ----
(***************************************************************************)
(* A model of the FTX REST client (src/FTX/client.py, src/FTX/helpers.py,  *)
(* src/FTX/constants.py): the pre-flight validation of the wrappers, the   *)
(* request builder and dispatcher Client._send_request, and the class-wide *)
(* rate window Client._requests.                                           *)
(*                                                                         *)
(* Python values are tagged records (None, I(n), S(s), B(b)); a dict is a  *)
(* sequence of <<key, value>> pairs in insertion order; strings are TLA+   *)
(* strings.  Time is counted in ticks of half a second, the length of the  *)
(* throttle's sleep.  A call of _send_request is two steps: everything up  *)
(* to the blocking HTTP call, and the return of that call.                 *)
(***************************************************************************)
EXTENDS Integers, Sequences, FiniteSets, TLC

VARIABLES
    client,     \* the Client instance: _api_key, _api_secret, _api_subaccount, _api_timeout
    requests,   \* Client._requests, the ExpiringDict: entries in insertion order
    now,        \* the wall clock, in ticks
    pc,         \* "idle", or "http" while _send_request blocks in the HTTP call
    call,       \* the wrapper call in progress or last made, and the request it built
    response,   \* the local variable response of _send_request
    outcome,    \* how the last wrapper call ended: a return value or a raised exception
    attempts    \* history: the time of every HTTP attempt made so far

vars == <<client, requests, now, pc, call, response, outcome, attempts>>

----------------------------------------------------------------------------
(* Bounds of the model *)

MaxCalls == 2       \* sends per behaviour of Spec
MaxSends == 32      \* sends per behaviour of SpecRate
MaxTime == 240      \* the clock is not advanced beyond this tick

----------------------------------------------------------------------------
(* Program constants *)

RATE_LIMIT_PER_SECOND == 30
MaxAgeSeconds == 60
TicksPerSecond == 2
SleepTicks == 1
DefaultTimeout == 30
MaxAge == MaxAgeSeconds * TicksPerSecond

PUBLIC_API_URL == "https://ftx.com/api"
PRIVATE_API_URL == "https://ftx.com/api"

PRIVATE_ENDPOINTS ==
    << "positions", "wallet", "account", "spot_margin", "srm_stakes", "orders",
       "conditional_orders", "leverage", "subaccounts", "fills", "funding_payments" >>

----------------------------------------------------------------------------
(* Python values *)

None == [t |-> "none"]
I(n) == [t |-> "int", i |-> n]
S(s) == [t |-> "str", s |-> s]
B(b) == [t |-> "bool", b |-> b]

\* bool(v), as if v: evaluates it
Truthy(v) ==
    CASE v.t = "none" -> FALSE
      [] v.t = "int" -> v.i # 0
      [] v.t = "str" -> v.s # ""
      [] v.t = "bool" -> v.b

\* str.startswith
StartsWith(s, prefix) ==
    /\ Len(s) >= Len(prefix)
    /\ SubSeq(s, 1, Len(prefix)) = prefix

\* a dict as a sequence of <<key, value>> pairs
DictKeys(d) == { d[i][1] : i \in 1..Len(d) }
DictGet(d, k) == d[CHOOSE i \in 1..Len(d) : d[i][1] = k][2]
\* d[k] = v
DictSet(d, k, v) ==
    IF k \in DictKeys(d)
    THEN [i \in 1..Len(d) |-> IF d[i][1] = k THEN <<k, v>> ELSE d[i]]
    ELSE Append(d, <<k, v>>)

----------------------------------------------------------------------------
(* Conversions to text: str(), urllib.parse.quote / quote_plus / urlencode,  *)
(* json.dumps                                                                 *)

L(elts) == [t |-> "list", l |-> elts]

Chars(s) == { SubSeq(s, i, i) : i \in 1..Len(s) }

\* the characters urllib.parse.quote never encodes
ALWAYS_SAFE == Chars("ABCDEFGHIJKLMNOPQRSTUVWXYZabcdefghijklmnopqrstuvwxyz0123456789_.-~")

\* "%XX" of a character outside ALWAYS_SAFE
PercentEncode(c) ==
    CASE c = " " -> "%20"
      [] c = "\"" -> "%22"
      [] c = "%" -> "%25"
      [] c = "&" -> "%26"
      [] c = "'" -> "%27"
      [] c = "+" -> "%2B"
      [] c = "," -> "%2C"
      [] c = "/" -> "%2F"
      [] c = ":" -> "%3A"
      [] c = "=" -> "%3D"
      [] c = "?" -> "%3F"
      [] c = "[" -> "%5B"
      [] c = "]" -> "%5D"
      [] c = "{" -> "%7B"
      [] c = "}" -> "%7D"

RECURSIVE Quote(_, _)
\* urllib.parse.quote(s, safe)
Quote(s, safe) ==
    IF s = "" THEN ""
    ELSE LET c == SubSeq(s, 1, 1)
         IN  (IF c \in ALWAYS_SAFE \cup Chars(safe) THEN c ELSE PercentEncode(c))
                 \o Quote(Tail(s), safe)

RECURSIVE SpaceToPlus(_)
SpaceToPlus(s) ==
    IF s = "" THEN ""
    ELSE (IF SubSeq(s, 1, 1) = " " THEN "+" ELSE SubSeq(s, 1, 1)) \o SpaceToPlus(Tail(s))

\* urllib.parse.quote_plus(s, safe)
QuotePlus(s, safe) == SpaceToPlus(Quote(s, safe \o " "))

RECURSIVE Join(_, _)
\* sep.join(parts)
Join(parts, sep) ==
    IF parts = <<>> THEN ""
    ELSE IF Len(parts) = 1 THEN parts[1]
    ELSE parts[1] \o sep \o Join(Tail(parts), sep)

\* repr(v) of a scalar
Repr(v) ==
    CASE v.t = "none" -> "None"
      [] v.t = "int" -> ToString(v.i)
      [] v.t = "bool" -> IF v.b THEN "True" ELSE "False"
      [] v.t = "str" -> "'" \o v.s \o "'"

\* str(v)
Str(v) ==
    CASE v.t = "str" -> v.s
      [] v.t = "list" -> "[" \o Join([i \in 1..Len(v.l) |-> Repr(v.l[i])], ", ") \o "]"
      [] OTHER -> Repr(v)

\* urlencode(query, doseq, safe): quote_via is quote_plus
UrlEncode(query, doseq, safe) ==
    LET Pair(k, v) == QuotePlus(k, safe) \o "=" \o QuotePlus(Str(v), safe)
        Item(kv) ==
            IF doseq /\ kv[2].t = "list"
            THEN [i \in 1..Len(kv[2].l) |-> Pair(kv[1], kv[2].l[i])]
            ELSE << Pair(kv[1], kv[2]) >>
        RECURSIVE Items(_)
        Items(q) == IF q = <<>> THEN <<>> ELSE Item(q[1]) \o Items(Tail(q))
    IN  Join(Items(query), "&")

\* json.dumps(v) of a scalar or a list of scalars
JsonValue(v) ==
    LET Scalar(x) ==
            CASE x.t = "none" -> "null"
              [] x.t = "int" -> ToString(x.i)
              [] x.t = "bool" -> IF x.b THEN "true" ELSE "false"
              [] x.t = "str" -> "\"" \o x.s \o "\""
    IN  IF v.t = "list"
        THEN "[" \o Join([i \in 1..Len(v.l) |-> Scalar(v.l[i])], ", ") \o "]"
        ELSE Scalar(v)

\* json.dumps(query) of a dict
JsonDumps(query) ==
    "{" \o Join([i \in 1..Len(query) |->
                    "\"" \o query[i][1] \o "\": " \o JsonValue(query[i][2])], ", ") \o "}"

----------------------------------------------------------------------------
(* src/FTX/helpers.py *)

\* get_current_timestamp(): the clock in milliseconds
get_current_timestamp(t) == t * (1000 \div TicksPerSecond)

\* build_query with the test written "if value:", which drops 0, False and ""
build_query_if_value(kwargs) == SelectSeq(kwargs, LAMBDA kv : Truthy(kv[2]))

\* build_query(**kwargs): the entries whose value is not None
build_query(kwargs) == SelectSeq(kwargs, LAMBDA kv : kv[2] # None)

NoExc == [exc |-> "", msg |-> "", cause |-> ""]
Exc(name, msg) == [exc |-> name, msg |-> msg, cause |-> ""]

\* a > b and a < b on a value that may be None raise TypeError
Comparable(v) == v.t = "int"

Has(kwargs, k) == k \in DictKeys(kwargs)
StrIn(v, allowed) == v.t = "str" /\ v.s \in allowed

\* Each guard of validate(**kwargs): NoExc when it passes, else what it raises.

\* if 'limit' in kwargs and kwargs['limit'] > 100
LimitCheck(kwargs) ==
    IF ~Has(kwargs, "limit") THEN NoExc
    ELSE IF ~Comparable(DictGet(kwargs, "limit")) THEN Exc("TypeError", "'>' not supported")
    ELSE IF DictGet(kwargs, "limit").i > 100 THEN Exc("Invalid", "'limit' must be 100 or lower")
    ELSE NoExc

\* the guards on 'side' and 'side_required'
SideCheck(kwargs) ==
    IF Has(kwargs, "side")
       /\ ~(DictGet(kwargs, "side") = None \/ StrIn(DictGet(kwargs, "side"), {"buy", "sell"}))
    THEN Exc("Invalid", "'side' should be one of 'buy' or 'sell'")
    ELSE IF Has(kwargs, "side_required")
            /\ ~StrIn(DictGet(kwargs, "side_required"), {"buy", "sell"})
    THEN Exc("Invalid", "'side' should be one of 'buy' or 'sell'")
    ELSE NoExc

\* the guards on 'type_' and 'type_required'
TypeCheck(kwargs) ==
    IF Has(kwargs, "type_")
       /\ ~(DictGet(kwargs, "type_") = None
            \/ StrIn(DictGet(kwargs, "type_"), {"stop", "trailing_stop", "take_profit"}))
    THEN Exc("Invalid", "'type_' must be one of 'stop', 'trailing_stop', or 'take_profit'")
    ELSE IF Has(kwargs, "type_required")
            /\ ~StrIn(DictGet(kwargs, "type_required"), {"limit", "market"})
    THEN Exc("Invalid", "'type_' should be one of 'limit' or 'market'")
    ELSE NoExc

\* if 'order' in kwargs and kwargs['order'] not in (None, "asc")
OrderCheck(kwargs) ==
    IF Has(kwargs, "order")
       /\ ~(DictGet(kwargs, "order") = None \/ StrIn(DictGet(kwargs, "order"), {"asc"}))
    THEN Exc("Invalid", "Please supply either None or 'asc' for order")
    ELSE NoExc

VALID_CHAINS == {"omni", "erc20", "trx", "sol", "bep2"}

\* the guard on 'chain': its message reads constants.VALID_CHAINS, and
\* helpers.py imports no constants module
ChainCheck(kwargs) ==
    IF Has(kwargs, "chain")
       /\ ~(DictGet(kwargs, "chain") = None \/ StrIn(DictGet(kwargs, "chain"), VALID_CHAINS))
    THEN Exc("NameError", "name 'constants' is not defined")
    ELSE NoExc

VALID_K_LINE_RESOLUTIONS == {15, 60, 300, 900, 3600, 14400, 86400}

\* the guard on 'resolution': its message joins a tuple of ints with ', '
ResolutionCheck(kwargs) ==
    IF Has(kwargs, "resolution")
       /\ ~(DictGet(kwargs, "resolution").t = "int"
            /\ DictGet(kwargs, "resolution").i \in VALID_K_LINE_RESOLUTIONS)
    THEN Exc("TypeError", "sequence item 0: expected str instance, int found")
    ELSE NoExc

\* DepthCheck with the two bounds excluded
DepthCheckExclusive(kwargs) ==
    IF Has(kwargs, "depth") /\ ~Comparable(DictGet(kwargs, "depth"))
    THEN Exc("TypeError", "'>' not supported")
    ELSE IF Has(kwargs, "depth") /\ DictGet(kwargs, "depth").i >= 100
    THEN Exc("Invalid", "depth must be between 20 and 100")
    ELSE IF ~Has(kwargs, "depth")
    THEN Exc("KeyError", "depth")
    ELSE IF DictGet(kwargs, "depth").i <= 20
    THEN Exc("Invalid", "depth must be between 20 and 100")
    ELSE NoExc

\* if 'depth' in kwargs and kwargs['depth'] > 100 or kwargs['depth'] < 20:
\* "and" binds tighter than "or", so kwargs['depth'] is read whenever the left
\* operand is false, also when there is no 'depth'
DepthCheck(kwargs) ==
    IF Has(kwargs, "depth") /\ ~Comparable(DictGet(kwargs, "depth"))
    THEN Exc("TypeError", "'>' not supported")
    ELSE IF Has(kwargs, "depth") /\ DictGet(kwargs, "depth").i > 100
    THEN Exc("Invalid", "depth must be between 20 and 100")
    ELSE IF ~Has(kwargs, "depth")
    THEN Exc("KeyError", "depth")
    ELSE IF DictGet(kwargs, "depth").i < 20
    THEN Exc("Invalid", "depth must be between 20 and 100")
    ELSE NoExc

\* validate(**kwargs): the guards in the order of the source; the first that
\* raises ends the call
validate(kwargs) ==
    LET checks == << LimitCheck(kwargs), SideCheck(kwargs), TypeCheck(kwargs),
                     OrderCheck(kwargs), ChainCheck(kwargs), ResolutionCheck(kwargs),
                     DepthCheck(kwargs) >>
        raising == { i \in 1..Len(checks) : checks[i] # NoExc }
    IN  IF raising = {} THEN NoExc
        ELSE checks[CHOOSE i \in raising : \A j \in raising : i <= j]

----------------------------------------------------------------------------
(* Client._requests = ExpiringDict(max_len=RATE_LIMIT_PER_SECOND,           *)
(*                                 max_age_seconds=60)                      *)

\* an entry is live while its age is below max_age
Live(e, t) == t - e.set_time < MaxAge

\* ExpiringValues as len(self._requests) counts: expired entries included
ExpiringValuesRaw(reqs, t) == reqs

\* what values() leaves in the dict: reading an expired entry deletes it
ExpiringValues(reqs, t) == SelectSeq(reqs, LAMBDA e : Live(e, t))

\* ExpiringSetItem of a dict that never drops an entry to make room
ExpiringSetItemUnbounded(reqs, key, t) ==
    LET entry == [key |-> key, set_time |-> t]
    IN  IF \E i \in 1..Len(reqs) : reqs[i].key = key
        THEN [i \in 1..Len(reqs) |-> IF reqs[i].key = key THEN entry ELSE reqs[i]]
        ELSE Append(reqs, entry)

\* self._requests[key] = None at time t: a full dict drops the key if it
\* holds it, else its oldest entry; then the entry is stored
ExpiringSetItem(reqs, key, t) ==
    LET Without(r, k) == SelectSeq(r, LAMBDA e : e.key # k)
        contains == \E i \in 1..Len(reqs) : reqs[i].key = key /\ Live(reqs[i], t)
        purged == SelectSeq(reqs, LAMBDA e : e.key # key \/ Live(e, t))
        room == IF Len(reqs) = RATE_LIMIT_PER_SECOND
                THEN IF contains THEN Without(reqs, key)
                     ELSE IF purged = <<>> THEN purged ELSE Tail(purged)
                ELSE reqs
        entry == [key |-> key, set_time |-> t]
    IN  IF \E i \in 1..Len(room) : room[i].key = key
        THEN [i \in 1..Len(room) |-> IF room[i].key = key THEN entry ELSE room[i]]
        ELSE Append(room, entry)

\* dt.datetime.now(): the tick, and within it a position that differs from
\* one attempt of this thread to the next (the clock has microsecond resolution)
DatetimeNow == <<now, Len(attempts)>>

----------------------------------------------------------------------------
(* Client._build_headers, Client._build_url *)

\* hmac.new(secret, payload, sha256).hexdigest(), uninterpreted
HmacSha256Hex(secret, payload) == "hmac(" \o secret \o "," \o payload \o ")"

\* _build_headers with the secret sent where the key belongs
_build_headers_secret_as_key(scope, method, endpoint, query, t) ==
    IF scope = "public"
    THEN ("Accept" :> "application/json") @@ ("User-Agent" :> "FTX-Trader/1.0")
    ELSE LET nonce == ToString(get_current_timestamp(t))
             base == nonce \o method \o "/api/" \o endpoint
             payload == IF method = "GET" /\ query # <<>>
                        THEN base \o "?" \o UrlEncode(query, FALSE, "")
                        ELSE IF query # <<>>
                        THEN base \o JsonDumps(query)
                        ELSE base
             sign == HmacSha256Hex(client.secret, payload)
             headers == ("Accept" :> "application/json")
                        @@ ("User-Agent" :> "FTX-Trader/1.0")
                        @@ ("Content-Type" :> "application/json")
                        @@ ("FTX-KEY" :> client.secret)
                        @@ ("FTX-SIGN" :> sign)
                        @@ ("FTX-TS" :> nonce)
         IN  IF Truthy(client.subaccount)
             THEN headers @@ ("FTX-SUBACCOUNT" :> Quote(client.subaccount.s, "/"))
             ELSE headers

\* _build_headers with the key and the subaccount added to the signed payload
_build_headers_key_in_payload(scope, method, endpoint, query, t) ==
    IF scope = "public"
    THEN ("Accept" :> "application/json") @@ ("User-Agent" :> "FTX-Trader/1.0")
    ELSE LET nonce == ToString(get_current_timestamp(t))
             base == nonce \o method \o "/api/" \o endpoint
             payload == IF method = "GET" /\ query # <<>>
                        THEN base \o "?" \o UrlEncode(query, FALSE, "")
                        ELSE IF query # <<>>
                        THEN base \o JsonDumps(query)
                        ELSE base
             sign == HmacSha256Hex(client.secret,
                                   payload \o client.key \o Str(client.subaccount))
             headers == ("Accept" :> "application/json")
                        @@ ("User-Agent" :> "FTX-Trader/1.0")
                        @@ ("Content-Type" :> "application/json")
                        @@ ("FTX-KEY" :> client.key)
                        @@ ("FTX-SIGN" :> sign)
                        @@ ("FTX-TS" :> nonce)
         IN  IF Truthy(client.subaccount)
             THEN headers @@ ("FTX-SUBACCOUNT" :> Quote(client.subaccount.s, "/"))
             ELSE headers

_build_headers(scope, method, endpoint, query, t) ==
    IF scope = "public"
    THEN ("Accept" :> "application/json") @@ ("User-Agent" :> "FTX-Trader/1.0")
    ELSE LET nonce == ToString(get_current_timestamp(t))
             base == nonce \o method \o "/api/" \o endpoint
             payload == IF method = "GET" /\ query # <<>>
                        THEN base \o "?" \o UrlEncode(query, FALSE, "")
                        ELSE IF query # <<>>
                        THEN base \o JsonDumps(query)
                        ELSE base
             sign == HmacSha256Hex(client.secret, payload)
             headers == ("Accept" :> "application/json")
                        @@ ("User-Agent" :> "FTX-Trader/1.0")
                        @@ ("Content-Type" :> "application/json")
                        @@ ("FTX-KEY" :> client.key)
                        @@ ("FTX-SIGN" :> sign)
                        @@ ("FTX-TS" :> nonce)
         IN  IF Truthy(client.subaccount)
             THEN headers @@ ("FTX-SUBACCOUNT" :> Quote(client.subaccount.s, "/"))
             ELSE headers

\* _build_url with the query string appended whatever the method and the query
_build_url_always_query(scope, method, endpoint, query) ==
    LET url == IF scope = "private"
               THEN PRIVATE_API_URL \o "/" \o endpoint
               ELSE PUBLIC_API_URL \o "/" \o endpoint
    IN  url \o "?" \o UrlEncode(query, TRUE, "/[]")

_build_url(scope, method, endpoint, query) ==
    LET url == IF scope = "private"
               THEN PRIVATE_API_URL \o "/" \o endpoint
               ELSE PUBLIC_API_URL \o "/" \o endpoint
    IN  IF method # "GET" THEN url
        ELSE IF Len(query) > 0 THEN url \o "?" \o UrlEncode(query, TRUE, "/[]")
        ELSE url

\* ScopeOf with the endpoint compared for equality instead of by its prefix
ScopeOfExact(endpoint) ==
    IF \E i \in 1..Len(PRIVATE_ENDPOINTS) : endpoint = PRIVATE_ENDPOINTS[i]
    THEN "private" ELSE "public"

\* the scope _send_request derives from the endpoint
ScopeOf(endpoint) ==
    IF \E i \in 1..Len(PRIVATE_ENDPOINTS) : StartsWith(endpoint, PRIVATE_ENDPOINTS[i])
    THEN "private" ELSE "public"

----------------------------------------------------------------------------
(* Client._send_request *)

Unbound == [bound |-> FALSE]
Bound(body) == [bound |-> TRUE, body |-> body]

NoOutcome == [kind |-> "none"]
Returned(v) == [kind |-> "return", val |-> v]
Raised(e) == [kind |-> "raise", exc |-> e.exc, val |-> e.msg, cause |-> e.cause]

NoCall ==
    [op |-> "", args |-> <<>>, sent |-> FALSE, method |-> "", endpoint |-> "",
     query |-> <<>>, count |-> 0, paused |-> FALSE, scope |-> "", headers |-> <<>>,
     url |-> "", body |-> None, timeout |-> None, reply |-> None, at |-> 0,
     dispatched |-> 0]

\* a wrapper raises before it calls _send_request
RaiseBeforeSend(op, args, e) ==
    /\ pc = "idle"
    /\ call' = [NoCall EXCEPT !.op = op, !.args = args]
    /\ outcome' = Raised(e)
    /\ response' = Unbound
    /\ UNCHANGED <<client, requests, now, pc, attempts>>

\* requests.get(url, headers=headers) sends no body;
\* requests.post / requests.delete(url, headers=headers, json=query) send the query as JSON
HttpBody(method, query) == IF method = "GET" THEN None ELSE S(JsonDumps(query))

\* _send_request(method, endpoint, query) up to the HTTP call: the throttle
\* check and its sleep, query or {}, the scope, the headers and the URL.
\* A query of None is passed as the empty dict, which query or {} makes of it.
SendRequest(op, args, method, endpoint, query) ==
    LET live == ExpiringValues(requests, now)
        paused == Len(live) = RATE_LIMIT_PER_SECOND
        t == IF paused THEN now + SleepTicks ELSE now
        scope == ScopeOf(endpoint)
    IN  /\ pc = "idle"
        /\ requests' = live
        /\ now' = t
        /\ call' = [op |-> op, args |-> args, sent |-> TRUE, method |-> method,
                    endpoint |-> endpoint, query |-> query, count |-> Len(live),
                    paused |-> paused, scope |-> scope,
                    headers |-> _build_headers(scope, method, endpoint, query, t),
                    url |-> _build_url(scope, method, endpoint, query),
                    body |-> HttpBody(method, query), timeout |-> None, reply |-> None,
                    at |-> now, dispatched |-> t]
        /\ pc' = "http"
        /\ response' = Unbound
        /\ outcome' = NoOutcome
        /\ UNCHANGED <<client, attempts>>

\* ValidatedSend with the request built and sent without the validation
ValidatedSendUnchecked(op, args, method, endpoint, query) ==
    SendRequest(op, args, method, endpoint, query)

\* a wrapper that validates its parameters first
ValidatedSend(op, args, method, endpoint, query) ==
    IF validate(args) # NoExc
    THEN RaiseBeforeSend(op, args, validate(args))
    ELSE SendRequest(op, args, method, endpoint, query)

\* what the HTTP call can do: return a body that parses to a JSON object, or
\* raise (no connection, a timeout, a body that is not JSON)
JsonBodies ==
    { [result |-> "[1,2,3]"],
      [error |-> "Invalid parameter"],
      [success |-> "false", error |-> "Not logged in"],
      [success |-> "true"],
      [result |-> "null", error |-> "ignored"] }

\* hasArgs: whether the exception carries a message in e.args
HttpFailures ==
    { [ok |-> FALSE, error |-> "ConnectionError", hasArgs |-> TRUE],
      [ok |-> FALSE, error |-> "ConnectionError", hasArgs |-> FALSE],
      [ok |-> FALSE, error |-> "Timeout", hasArgs |-> TRUE],
      [ok |-> FALSE, error |-> "JSONDecodeError", hasArgs |-> TRUE] }

Replies == { [ok |-> TRUE, body |-> b] : b \in JsonBodies } \cup HttpFailures

\* Unwrap with the error envelope passed through like any other body
UnwrapErrorReturned(resp) ==
    IF ~resp.bound
    THEN Raised(Exc("UnboundLocalError",
                    "local variable 'response' referenced before assignment"))
    ELSE IF "result" \in DOMAIN resp.body
    THEN Returned([t |-> "json", s |-> resp.body.result])
    ELSE Returned([t |-> "dict", d |-> resp.body])

\* Unwrap with the two tests in the other order
UnwrapErrorFirst(resp) ==
    IF ~resp.bound
    THEN Raised(Exc("UnboundLocalError",
                    "local variable 'response' referenced before assignment"))
    ELSE IF "error" \in DOMAIN resp.body
    THEN Raised(Exc("DoesntExist", resp.body.error))
    ELSE IF "result" \in DOMAIN resp.body
    THEN Returned([t |-> "json", s |-> resp.body.result])
    ELSE Returned([t |-> "dict", d |-> resp.body])

\* the lines after the try statement: unwrap the envelope
Unwrap(resp) ==
    IF ~resp.bound
    THEN Raised(Exc("UnboundLocalError",
                    "local variable 'response' referenced before assignment"))
    ELSE IF "result" \in DOMAIN resp.body
    THEN Returned([t |-> "json", s |-> resp.body.result])
    ELSE IF "error" \in DOMAIN resp.body
    THEN Raised(Exc("DoesntExist", resp.body.error))
    ELSE Returned([t |-> "dict", d |-> resp.body])

\* the except clause prints e.args[0]: an exception without args raises
\* IndexError there, with e as its context
ExceptClause(reply) ==
    IF ~reply.ok /\ ~reply.hasArgs
    THEN [exc |-> "IndexError", msg |-> "tuple index out of range", cause |-> reply.error]
    ELSE NoExc

\* FinallyClause with the record made in the try body, after the HTTP call
FinallyClauseOnSuccess(reqs, reply) ==
    IF reply.ok THEN ExpiringSetItem(reqs, DatetimeNow, now) ELSE reqs

\* the finally clause, which runs however the HTTP call ended:
\* self._requests[dt.datetime.now()] = None
FinallyClause(reqs, reply) == ExpiringSetItem(reqs, DatetimeNow, now)

\* get_perpetual_futures and get_balance select from the list that get_futures
\* and get_balances return; the selection itself is left uninterpreted
PostProcess(op, out) ==
    IF op \in {"get_perpetual_futures", "get_balance"} /\ out.kind = "return"
    THEN Returned([t |-> "selected", from |-> out.val])
    ELSE out

\* the HTTP call returns or raises; except, finally, and the unwrapping
HttpReturn(reply) ==
    /\ pc = "http"
    /\ response' = IF reply.ok THEN Bound(reply.body) ELSE Unbound
    /\ requests' = FinallyClause(requests, reply)
    /\ attempts' = Append(attempts, now)
    /\ outcome' = IF ExceptClause(reply) # NoExc
                  THEN Raised(ExceptClause(reply))
                  ELSE PostProcess(call.op, Unwrap(response'))
    /\ call' = [call EXCEPT !.reply = reply]
    /\ pc' = "idle"
    /\ UNCHANGED <<client, now>>

\* time passes, between calls or while the HTTP call is under way
Advance(k) ==
    /\ now + k <= MaxTime
    /\ now' = now + k
    /\ UNCHANGED <<client, requests, pc, call, response, outcome, attempts>>

----------------------------------------------------------------------------
(* The wrappers of Client: the public API *)

Pairs == {"BTC/USD"}
Depths == {19, 20, 21, 100, 101}
Limits == {I(1), I(100), I(101), None}
Resolutions == {300, 301}
OptTimes == {None, I(1600000000)}

Kw1(k, v) == << <<k, v>> >>

get_markets == SendRequest("get_markets", <<>>, "GET", "markets", <<>>)

get_market ==
    \E pair \in {"BTC/USD", "BTC-PERP"} : SendRequest("get_market", <<>>, "GET", "markets/" \o pair, <<>>)

get_orderbook ==
    \E pair \in Pairs, depth \in Depths :
        ValidatedSend("get_orderbook", Kw1("depth", I(depth)), "GET",
                      "markets/" \o pair \o "/orderbook", Kw1("depth", I(depth)))

get_recent_trades ==
    \E pair \in Pairs, limit \in {None, I(101)}, start_time \in OptTimes :
        SendRequest("get_recent_trades", <<>>, "GET", "markets/" \o pair \o "/trades",
                    build_query(<< <<"limit", limit>>, <<"start_time", start_time>>,
                                   <<"end_time", None>> >>))

get_k_line ==
    \E pair \in Pairs, resolution \in Resolutions, limit \in {None, I(100)} :
        ValidatedSend("get_k_line", Kw1("resolution", I(resolution)), "GET",
                      "markets/" \o pair \o "/candles",
                      build_query(<< <<"limit", limit>>, <<"start_time", None>>,
                                     <<"end_time", None>>, <<"resolution", I(resolution)>> >>))

get_futures == SendRequest("get_futures", <<>>, "GET", "/futures", <<>>)

\* get_futures(), then the futures whose "perpetual" is set
get_perpetual_futures == SendRequest("get_perpetual_futures", <<>>, "GET", "/futures", <<>>)

get_future ==
    \E pair \in {"BTC-PERP"} : SendRequest("get_future", <<>>, "GET", "futures/" \o pair, <<>>)

get_future_stats ==
    \E pair \in {"BTC-PERP"} :
        SendRequest("get_future_stats", <<>>, "GET", "futures/" \o pair \o "/stats", <<>>)

get_funding_rates == SendRequest("get_funding_rates", <<>>, "GET", "funding_rates", <<>>)

get_etf_future_index ==
    \E index \in {"ALT"} :
        SendRequest("get_etf_future_index", <<>>, "GET", "indexes/" \o index \o "/weights", <<>>)

get_expired_futures == SendRequest("get_expired_futures", <<>>, "GET", "expired_futures", <<>>)

get_index_k_line ==
    \E index \in {"ALT"}, resolution \in Resolutions, limit \in {None, I(100)} :
        ValidatedSend("get_index_k_line", Kw1("resolution", I(resolution)), "GET",
                      "indexes/" \o index \o "/candles",
                      build_query(<< <<"resolution", I(resolution)>>, <<"limit", limit>>,
                                     <<"start_time", None>>, <<"end_time", None>> >>))

----------------------------------------------------------------------------
(* The wrappers of Client: the private API (read) *)

Coins == {"BTC"}
Chains == {None, S("erc20"), S("bep2"), S("eth")}
OrderIds == {"123"}
ClientIds == {"cid-1"}
Sides == {None, S("buy"), S("sell"), S("hold")}
TriggerTypes == {None, S("stop"), S("limit")}

get_account_info == SendRequest("get_account_info", <<>>, "GET", "account", <<>>)

get_positions ==
    \E showAvgPrice \in BOOLEAN :
        SendRequest("get_positions", <<>>, "GET", "positions",
                    Kw1("showAvgPrice", B(showAvgPrice)))

get_subaccounts == SendRequest("get_subaccounts", <<>>, "GET", "subaccounts", <<>>)

get_subaccount_balances ==
    \E name \in {"my sub"} :
        SendRequest("get_subaccount_balances", <<>>, "GET",
                    "subaccounts/" \o name \o "/balances", <<>>)

get_wallet_coins == SendRequest("get_wallet_coins", <<>>, "GET", "wallet/coins", <<>>)

get_balances == SendRequest("get_balances", <<>>, "GET", "wallet/balances", <<>>)

\* get_balances(), then the balance of the coin
get_balance == SendRequest("get_balance", <<>>, "GET", "wallet/balances", <<>>)

get_all_balances == SendRequest("get_all_balances", <<>>, "GET", "wallet/all_balances", <<>>)

get_deposit_address ==
    \E coin \in Coins, chain \in Chains :
        ValidatedSend("get_deposit_address", Kw1("chain", chain), "GET",
                      "wallet/deposit_address/" \o coin,
                      IF chain = None THEN <<>> ELSE Kw1("method", chain))

\* build_query(end_time=end_time, start_time=start_time, limit=limit)
HistoryQuery(limit, start_time) ==
    build_query(<< <<"end_time", None>>, <<"start_time", start_time>>, <<"limit", limit>> >>)

get_deposit_history ==
    \E limit \in {None, I(101)}, start_time \in OptTimes :
        SendRequest("get_deposit_history", <<>>, "GET", "wallet/deposits",
                    HistoryQuery(limit, start_time))

get_withdrawal_history ==
    \E limit \in {None, I(101)}, start_time \in OptTimes :
        SendRequest("get_withdrawal_history", <<>>, "GET", "wallet/withdrawals",
                    HistoryQuery(limit, start_time))

get_wallet_airdrops ==
    \E limit \in {None, I(101)}, start_time \in OptTimes :
        SendRequest("get_wallet_airdrops", <<>>, "GET", "wallet/airdrops",
                    HistoryQuery(limit, start_time))

get_funding_payments ==
    \E coin \in {None, S("BTC")}, start_time \in OptTimes :
        LET query == build_query(<< <<"end_time", None>>, <<"start_time", start_time>> >>)
        IN  SendRequest("get_funding_payments", <<>>, "GET", "funding_payments",
                        IF coin # None
                        THEN DictSet(query, "future", S(coin.s \o "-PERP"))
                        ELSE query)

get_fills ==
    \E pair \in Pairs, limit \in {None, I(100)}, order \in {None, S("asc"), S("desc")} :
        ValidatedSend("get_fills", Kw1("order", order), "GET", "fills",
                      DictSet(build_query(<< <<"limit", limit>>, <<"start_time", None>>,
                                             <<"end_time", None>>, <<"order", order>>,
                                             <<"orderId", None>> >>),
                              "market", S(pair)))

get_open_orders ==
    \E pair \in {None, S("BTC/USD")} :
        SendRequest("get_open_orders", <<>>, "GET", "orders",
                    IF pair # None THEN Kw1("market", pair) ELSE <<>>)

get_order_history ==
    \E pair \in {None, S("BTC/USD")}, limit \in Limits :
        ValidatedSend("get_order_history", Kw1("limit", limit), "GET", "orders/history",
                      DictSet(HistoryQuery(limit, None), "market", pair))

get_open_trigger_orders ==
    \E pair \in {None, S("BTC/USD")}, type_ \in TriggerTypes :
        LET q1 == IF pair # None THEN Kw1("market", pair) ELSE <<>>
            q2 == IF type_ # None THEN DictSet(q1, "type", type_) ELSE q1
        IN  ValidatedSend("get_open_trigger_orders", Kw1("type_", type_), "GET",
                          "conditional_orders", q2)

get_trigger_order_triggers ==
    \E orderId \in OrderIds :
        SendRequest("get_trigger_order_triggers", <<>>, "GET",
                    "conditional_orders/" \o orderId \o "/triggers", <<>>)

get_trigger_order_history ==
    \E pair \in {None, S("BTC/USD")}, side \in Sides, type_ \in TriggerTypes,
       limit \in {I(100), I(101)} :
        LET q0 == build_query(<< <<"start_time", None>>, <<"end_time", None>>,
                                 <<"side", side>>, <<"orderType", None>>,
                                 <<"limit", limit>> >>)
            q1 == IF pair # None THEN DictSet(q0, "market", pair) ELSE q0
            q2 == IF type_ # None THEN DictSet(q1, "type", type_) ELSE q1
        IN  ValidatedSend("get_trigger_order_history",
                          << <<"limit", limit>>, <<"side", side>>, <<"type_", type_>> >>,
                          "GET", "conditional_orders/history", q2)

get_order_status ==
    \E orderId \in OrderIds :
        SendRequest("get_order_status", <<>>, "GET", "orders/" \o orderId, <<>>)

get_order_status_by_clientId ==
    \E clientId \in ClientIds :
        SendRequest("get_order_status_by_clientId", <<>>, "GET",
                    "orders/by_client_id/" \o clientId, <<>>)

----------------------------------------------------------------------------
(* The wrappers of Client: the private API (write) *)

Sizes == {I(1)}
Prices == {I(30000)}
OptPrices == {None, I(30000)}
OrderTypes == {S("limit"), S("market"), S("stop")}

create_subaccount ==
    \E name \in {"my sub"} :
        SendRequest("create_subaccount", <<>>, "POST", "subaccounts", Kw1("nickname", S(name)))

change_subaccount_name ==
    \E name \in {"my sub"}, newname \in {"other"} :
        SendRequest("change_subaccount_name", <<>>, "POST", "subaccounts/update_name",
                    << <<"nickname", S(name)>>, <<"newNickname", S(newname)>> >>)

delete_subaccount ==
    \E name \in {"my sub"} :
        SendRequest("delete_subaccount", <<>>, "DELETE", "subaccounts",
                    Kw1("nickname", S(name)))

transfer_balances ==
    \E coin \in Coins, size \in Sizes :
        SendRequest("transfer_balances", <<>>, "POST", "subaccounts/transfer",
                    << <<"coin", S(coin)>>, <<"size", size>>, <<"source", S("main")>>,
                       <<"destination", S("my sub")>> >>)

change_account_leverage ==
    \E leverage \in {I(3)} :
        SendRequest("change_account_leverage", <<>>, "POST", "account/leverage",
                    Kw1("leverage", leverage))

create_order ==
    \E pair \in Pairs, side \in Sides, type_ \in OrderTypes, clientId \in {None, S("cid-1")} :
        LET query == << <<"market", S(pair)>>, <<"side", side>>, <<"price", I(30000)>>,
                        <<"type", type_>>, <<"size", I(1)>>, <<"reduceOnly", B(FALSE)>>,
                        <<"ioc", B(FALSE)>>, <<"postOnly", B(FALSE)>> >>
        IN  ValidatedSend("create_order",
                          << <<"side_required", side>>, <<"type_required", type_>> >>,
                          "POST", "orders",
                          IF clientId # None THEN DictSet(query, "clientId", clientId)
                          ELSE query)

create_trigger_order ==
    \E pair \in Pairs, side \in Sides, orderPrice \in OptPrices :
        LET query == << <<"market", S(pair)>>, <<"side", side>>, <<"triggerPrice", I(29000)>>,
                        <<"size", I(1)>>, <<"type", S("stop")>>, <<"reduceOnly", B(FALSE)>>,
                        <<"retryUntilFilled", B(TRUE)>> >>
        IN  ValidatedSend("create_trigger_order", Kw1("side_required", side),
                          "POST", "conditional_orders",
                          IF orderPrice # None THEN DictSet(query, "orderPrice", orderPrice)
                          ELSE query)

\* build_query(clientId=clientId, size=size, price=price)
ModifyQuery(clientId, size, price) ==
    build_query(<< <<"clientId", clientId>>, <<"size", size>>, <<"price", price>> >>)

modify_order ==
    \E orderId \in OrderIds, price \in OptPrices, size \in {None, I(1)} :
        SendRequest("modify_order", <<>>, "POST", "orders/" \o orderId \o "/modify",
                    ModifyQuery(None, size, price))

modify_order_by_clientId ==
    \E clientOrderId \in ClientIds, price \in OptPrices, size \in {None, I(1)} :
        SendRequest("modify_order_by_clientId", <<>>, "POST",
                    "orders/by_client_id/" \o clientOrderId \o "/modify",
                    ModifyQuery(None, size, price))

modify_trigger_order ==
    \E orderId \in OrderIds, _type \in {"stop", "takeProfit", "trailingStop"},
       triggerPrice \in OptPrices, orderPrice \in OptPrices, trailValue \in {None} :
        LET q0 == << <<"size", I(1)>>, <<"triggerPrice", triggerPrice>> >>
            query == IF _type \in {"stop", "takeProfit"}
                     THEN IF orderPrice # None THEN DictSet(q0, "orderPrice", orderPrice)
                          ELSE q0
                     ELSE << <<"size", I(1)>>, <<"trailValue", trailValue>> >>
        IN  SendRequest("modify_trigger_order", <<>>, "POST",
                        "conditional_orders/" \o orderId \o "/modify", query)

cancel_order ==
    \E orderId \in OrderIds :
        SendRequest("cancel_order", <<>>, "DELETE", "orders/" \o orderId, <<>>)

cancel_order_by_clientID ==
    \E clientId \in ClientIds :
        SendRequest("cancel_order_by_clientID", <<>>, "DELETE",
                    "orders/by_client_id/" \o clientId, <<>>)

cancel_trigger_order ==
    \E orderId \in OrderIds :
        SendRequest("cancel_trigger_order", <<>>, "DELETE",
                    "conditional_orders/" \o orderId, <<>>)

cancel_all_orders ==
    \E pair \in {None, S("BTC/USD")}, conditionalOrdersOnly \in BOOLEAN :
        LET query == << <<"conditionalOrdersOnly", B(conditionalOrdersOnly)>>,
                        <<"limitOrdersOnly", B(FALSE)>> >>
        IN  SendRequest("cancel_all_orders", <<>>, "DELETE", "orders",
                        IF pair # None THEN DictSet(query, "market", pair) ELSE query)

get_srm_stake_history ==
    SendRequest("get_srm_stake_history", <<>>, "GET", "srm_stakes/stakes", <<>>)

get_srm_unstake_history ==
    SendRequest("get_srm_unstake_history", <<>>, "GET", "srm_stakes/unstake_requests", <<>>)

get_srm_stake_balances ==
    SendRequest("get_srm_stake_balances", <<>>, "GET", "srm_stakes/balances", <<>>)

get_srm_stake_rewards_history ==
    SendRequest("get_srm_stake_rewards_history", <<>>, "GET", "srm_stakes/staking_rewards", <<>>)

srm_unstake ==
    \E coin \in {"SRM"}, size \in Sizes :
        SendRequest("srm_unstake", <<>>, "POST", "srm_stakes/unstake_requests",
                    << <<"coin", S(coin)>>, <<"size", size>> >>)

cancel_srm_unstake ==
    \E stakeId \in OrderIds :
        SendRequest("cancel_srm_unstake", <<>>, "DELETE",
                    "srm_stakes/unstake_requests/" \o stakeId, <<>>)

request_quote ==
    \E fromCoin \in Coins, toCoin \in {"USD"}, size \in Sizes :
        SendRequest("request_quote", <<>>, "POST", "otc/quotes",
                    << <<"fromCoin", S(fromCoin)>>, <<"toCoin", S(toCoin)>>,
                       <<"size", size>> >>)

get_quote_status ==
    \E quoteId \in OrderIds :
        SendRequest("get_quote_status", <<>>, "GET", "otc/quotes/" \o quoteId, <<>>)

accept_quote ==
    \E quoteId \in OrderIds :
        SendRequest("accept_quote", <<>>, "POST", "otc/quotes/" \o quoteId \o "/accept", <<>>)

srm_stake ==
    \E coin \in {"SRM"}, size \in Sizes :
        SendRequest("srm_stake", <<>>, "POST", "srm_stakes/stakes",
                    << <<"coin", S(coin)>>, <<"size", size>> >>)

\* defined twice in the class; the second definition is the one in effect
get_margin_lending_history ==
    SendRequest("get_margin_lending_history", <<>>, "GET", "spot_margin/lending_history", <<>>)

get_margin_borrow_rates ==
    SendRequest("get_margin_borrow_rates", <<>>, "GET", "spot_margin/borrow_rates", <<>>)

get_margin_lending_rates ==
    SendRequest("get_margin_lending_rates", <<>>, "GET", "spot_margin/lending_rates", <<>>)

get_margin_lending_info ==
    SendRequest("get_margin_lending_info", <<>>, "GET", "spot_margin/lending_info", <<>>)

get_margin_borrow_history ==
    SendRequest("get_margin_borrow_history", <<>>, "GET", "spot_margin/borrow_history", <<>>)

get_margin_borrow_summary ==
    SendRequest("get_margin_borrow_summary", <<>>, "GET", "spot_margin/borrow_summary", <<>>)

get_margin_market_info ==
    \E pair \in Pairs :
        SendRequest("get_margin_market_info", <<>>, "GET",
                    "spot_margin/market_info?market=" \o pair, <<>>)

get_margin_lending_offers ==
    SendRequest("get_margin_lending_offers", <<>>, "GET", "spot_margin/offers", <<>>)

set_margin_lending_offer ==
    \E coin \in Coins, size \in Sizes, rate \in {I(1)} :
        SendRequest("set_margin_lending_offer", <<>>, "POST", "spot_margin/offers",
                    << <<"coin", S(coin)>>, <<"size", size>>, <<"rate", rate>> >>)

----------------------------------------------------------------------------
(* Specifications *)

Subaccounts == {None, S(""), S("my sub")}

\* Client(key, secret, subaccount, timeout), and the class attribute _requests
Init ==
    /\ client \in { [key |-> "KEY", secret |-> "SECRET", subaccount |-> sub,
                     timeout |-> DefaultTimeout] : sub \in Subaccounts }
    /\ requests = <<>>
    /\ now = 0
    /\ pc = "idle"
    /\ call = NoCall
    /\ response = Unbound
    /\ outcome = NoOutcome
    /\ attempts = <<>>

\* fewer than n sends have been made or begun
Budget(n) == Len(attempts) < n

\* every wrapper, a bounded number of sends
Next ==
    \/ \E reply \in Replies : HttpReturn(reply)
    \/ Budget(MaxCalls) /\ get_markets
    \/ Budget(MaxCalls) /\ get_market
    \/ Budget(MaxCalls) /\ get_orderbook
    \/ Budget(MaxCalls) /\ get_recent_trades
    \/ Budget(MaxCalls) /\ get_k_line
    \/ Budget(MaxCalls) /\ get_futures
    \/ Budget(MaxCalls) /\ get_perpetual_futures
    \/ Budget(MaxCalls) /\ get_future
    \/ Budget(MaxCalls) /\ get_future_stats
    \/ Budget(MaxCalls) /\ get_funding_rates
    \/ Budget(MaxCalls) /\ get_etf_future_index
    \/ Budget(MaxCalls) /\ get_expired_futures
    \/ Budget(MaxCalls) /\ get_index_k_line
    \/ Budget(MaxCalls) /\ get_account_info
    \/ Budget(MaxCalls) /\ get_positions
    \/ Budget(MaxCalls) /\ get_subaccounts
    \/ Budget(MaxCalls) /\ get_subaccount_balances
    \/ Budget(MaxCalls) /\ get_wallet_coins
    \/ Budget(MaxCalls) /\ get_balances
    \/ Budget(MaxCalls) /\ get_balance
    \/ Budget(MaxCalls) /\ get_all_balances
    \/ Budget(MaxCalls) /\ get_deposit_address
    \/ Budget(MaxCalls) /\ get_deposit_history
    \/ Budget(MaxCalls) /\ get_withdrawal_history
    \/ Budget(MaxCalls) /\ get_wallet_airdrops
    \/ Budget(MaxCalls) /\ get_funding_payments
    \/ Budget(MaxCalls) /\ get_fills
    \/ Budget(MaxCalls) /\ get_open_orders
    \/ Budget(MaxCalls) /\ get_order_history
    \/ Budget(MaxCalls) /\ get_open_trigger_orders
    \/ Budget(MaxCalls) /\ get_trigger_order_triggers
    \/ Budget(MaxCalls) /\ get_trigger_order_history
    \/ Budget(MaxCalls) /\ get_order_status
    \/ Budget(MaxCalls) /\ get_order_status_by_clientId
    \/ Budget(MaxCalls) /\ create_subaccount
    \/ Budget(MaxCalls) /\ change_subaccount_name
    \/ Budget(MaxCalls) /\ delete_subaccount
    \/ Budget(MaxCalls) /\ transfer_balances
    \/ Budget(MaxCalls) /\ change_account_leverage
    \/ Budget(MaxCalls) /\ create_order
    \/ Budget(MaxCalls) /\ create_trigger_order
    \/ Budget(MaxCalls) /\ modify_order
    \/ Budget(MaxCalls) /\ modify_order_by_clientId
    \/ Budget(MaxCalls) /\ modify_trigger_order
    \/ Budget(MaxCalls) /\ cancel_order
    \/ Budget(MaxCalls) /\ cancel_order_by_clientID
    \/ Budget(MaxCalls) /\ cancel_trigger_order
    \/ Budget(MaxCalls) /\ cancel_all_orders
    \/ Budget(MaxCalls) /\ get_srm_stake_history
    \/ Budget(MaxCalls) /\ get_srm_unstake_history
    \/ Budget(MaxCalls) /\ get_srm_stake_balances
    \/ Budget(MaxCalls) /\ get_srm_stake_rewards_history
    \/ Budget(MaxCalls) /\ srm_unstake
    \/ Budget(MaxCalls) /\ cancel_srm_unstake
    \/ Budget(MaxCalls) /\ request_quote
    \/ Budget(MaxCalls) /\ get_quote_status
    \/ Budget(MaxCalls) /\ accept_quote
    \/ Budget(MaxCalls) /\ srm_stake
    \/ Budget(MaxCalls) /\ get_margin_lending_history
    \/ Budget(MaxCalls) /\ get_margin_borrow_rates
    \/ Budget(MaxCalls) /\ get_margin_lending_rates
    \/ Budget(MaxCalls) /\ get_margin_lending_info
    \/ Budget(MaxCalls) /\ get_margin_borrow_history
    \/ Budget(MaxCalls) /\ get_margin_borrow_summary
    \/ Budget(MaxCalls) /\ get_margin_market_info
    \/ Budget(MaxCalls) /\ get_margin_lending_offers
    \/ Budget(MaxCalls) /\ set_margin_lending_offer

Spec == Init /\ [][Next]_vars

\* the instances that can be constructed
Keys == {"KEY", "KEY2"}
Secrets == {"SECRET", "s3cr3t"}

Clients ==
    { [key |-> key, secret |-> secret, subaccount |-> sub, timeout |-> DefaultTimeout] :
        key \in Keys, secret \in Secrets, sub \in {None, S("my sub")} }

\* Client(key, secret, subaccount, timeout): instance c is constructed and the
\* next calls are made on it; _requests is an attribute of the class, so the
\* new instance finds the entries the earlier ones recorded
__init__(c) ==
    /\ pc = "idle"
    /\ client # c
    /\ client' = c
    /\ UNCHANGED <<requests, now, pc, call, response, outcome, attempts>>

\* the rate window: many sends of one wrapper, and the clock
AdvanceSteps == {MaxAge - 1, MaxAge}

\* the instances that share the rate window in SpecRate
RateClients == { c \in Clients : c.subaccount = None /\ c.secret = "SECRET" }

NextRate ==
    \/ \E reply \in Replies : HttpReturn(reply)
    \/ Budget(MaxSends) /\ get_markets
    \/ \E k \in AdvanceSteps : Advance(k)
    \/ \E c \in RateClients : __init__(c)

InitRate == Init /\ client.subaccount = None

SpecRate == InitRate /\ [][NextRate]_vars

----------------------------------------------------------------------------
(* _send_request called through _GET, _POST and _DELETE with any endpoint   *)
(* and query, helpers.build_query called by itself, several instances       *)

SendEndpoints == {"markets", "orders"}

SendQueries ==
    { <<>>,
      Kw1("coins", L(<< S("BTC"), S("ETH") >>)),
      Kw1("market", S("BTC/USD")),
      << <<"tags", L(<< S("a[b]") >>)>>, <<"limit", I(0)>> >>,
      Kw1("note", S("s p&c")) }

_GET ==
    \E endpoint \in SendEndpoints, query \in SendQueries :
        SendRequest("_GET", <<>>, "GET", endpoint, query)

_POST ==
    \E endpoint \in SendEndpoints, query \in SendQueries :
        SendRequest("_POST", <<>>, "POST", endpoint, query)

_DELETE ==
    \E endpoint \in SendEndpoints, query \in SendQueries :
        SendRequest("_DELETE", <<>>, "DELETE", endpoint, query)

\* keyword arguments with unset, falsy and other values
Kwargs ==
    { << <<"limit", a>>, <<"reduceOnly", b>>, <<"market", c>> >> :
        a \in {None, I(0), I(5)}, b \in {None, B(FALSE), B(TRUE)},
        c \in {None, S(""), S("BTC/USD")} }

\* helpers.build_query(**kwargs), called by itself
CallBuildQuery ==
    /\ pc = "idle"
    /\ \E kwargs \in Kwargs :
        /\ call' = [NoCall EXCEPT !.op = "build_query", !.args = kwargs]
        /\ outcome' = Returned([t |-> "dict", d |-> build_query(kwargs)])
    /\ response' = Unbound
    /\ UNCHANGED <<client, requests, now, pc, attempts>>

SendReplies ==
    { [ok |-> TRUE, body |-> [result |-> "[1,2,3]"]],
      [ok |-> FALSE, error |-> "Timeout", hasArgs |-> TRUE] }

InitSend ==
    /\ client \in Clients
    /\ requests = <<>>
    /\ now \in {0, 3}
    /\ pc = "idle"
    /\ call = NoCall
    /\ response = Unbound
    /\ outcome = NoOutcome
    /\ attempts = <<>>

NextSend ==
    \/ \E reply \in SendReplies : HttpReturn(reply)
    \/ Budget(MaxCalls) /\ _GET
    \/ Budget(MaxCalls) /\ _POST
    \/ Budget(MaxCalls) /\ _DELETE
    \/ CallBuildQuery
    \/ \E c \in Clients : __init__(c)

SpecSend == InitSend /\ [][NextSend]_vars

----------------------------------------------------------------------------
(* _send_request called from several threads on the shared _requests. In    *)
(* this specification pc, call, response and outcome hold one value per     *)
(* thread; requests, now and attempts are shared. A thread can be           *)
(* interrupted between any two operations on _requests; each operation of   *)
(* the ExpiringDict runs under the dict's own lock and is one step.         *)

MaxThreads == 2
Threads == 1..MaxThreads

\* the sends the threads have begun and not yet recorded
Running == { th \in Threads : pc[th] # "idle" }

\* a thread enters _send_request (through get_markets): the throttle check,
\* line 94, then the request is built from the thread's own locals
ThreadCheck(th) ==
    LET live == ExpiringValues(requests, now)
        paused == Len(live) = RATE_LIMIT_PER_SECOND
    IN  /\ pc[th] = "idle"
        /\ Len(attempts) + Cardinality(Running) < MaxSends
        /\ requests' = live
        /\ call' = [call EXCEPT ![th] =
                        [NoCall EXCEPT !.op = "get_markets", !.sent = TRUE,
                                       !.method = "GET", !.endpoint = "markets",
                                       !.count = Len(live), !.paused = paused,
                                       !.scope = ScopeOf("markets"),
                                       !.headers = _build_headers("public", "GET", "markets",
                                                                  <<>>, now),
                                       !.url = _build_url("public", "GET", "markets", <<>>),
                                       !.at = now, !.dispatched = now]]
        /\ pc' = [pc EXCEPT ![th] = IF paused THEN "sleep" ELSE "http"]
        /\ response' = [response EXCEPT ![th] = Unbound]
        /\ outcome' = [outcome EXCEPT ![th] = NoOutcome]
        /\ UNCHANGED <<client, now, attempts>>

\* sleep(0.5) ends, line 100
ThreadSleep(th) ==
    /\ pc[th] = "sleep"
    /\ now + SleepTicks <= MaxTime
    /\ now' = now + SleepTicks
    /\ call' = [call EXCEPT ![th].dispatched = now']
    /\ pc' = [pc EXCEPT ![th] = "http"]
    /\ UNCHANGED <<client, requests, response, outcome, attempts>>

\* the HTTP call of the thread returns or raises; except, finally (the
\* record, line 121), and the unwrapping
ThreadReturn(th, reply) ==
    /\ pc[th] = "http"
    /\ response' = [response EXCEPT ![th] = IF reply.ok THEN Bound(reply.body) ELSE Unbound]
    /\ requests' = FinallyClause(requests, reply)
    /\ attempts' = Append(attempts, now)
    /\ outcome' = [outcome EXCEPT ![th] =
                        IF ExceptClause(reply) # NoExc
                        THEN Raised(ExceptClause(reply))
                        ELSE Unwrap(response'[th])]
    /\ call' = [call EXCEPT ![th].reply = reply]
    /\ pc' = [pc EXCEPT ![th] = "idle"]
    /\ UNCHANGED <<client, now>>

InitThreads ==
    /\ client = [key |-> "KEY", secret |-> "SECRET", subaccount |-> None,
                 timeout |-> DefaultTimeout]
    /\ requests = <<>>
    /\ now = 0
    /\ pc = [th \in Threads |-> "idle"]
    /\ call = [th \in Threads |-> NoCall]
    /\ response = [th \in Threads |-> Unbound]
    /\ outcome = [th \in Threads |-> NoOutcome]
    /\ attempts = <<>>

NextThreads ==
    \/ \E th \in Threads : ThreadCheck(th)
    \/ \E th \in Threads : ThreadSleep(th)
    \/ \E th \in Threads, reply \in SendReplies : ThreadReturn(th, reply)

SpecThreads == InitThreads /\ [][NextThreads]_vars

----------------------------------------------------------------------------
(* Properties *)

\* the last wrapper call went through _send_request and its HTTP call has ended
Completed == pc = "idle" /\ call.sent /\ call.reply # None

\* how _send_request itself ended, before a wrapper's selection from the result
SendOutcome ==
    IF outcome.kind = "return" /\ outcome.val.t = "selected"
    THEN Returned(outcome.val.from)
    ELSE outcome

\* C1: when the HTTP call fails (no connection, timeout, a body that is not
\* JSON), _send_request fails with a TransportFailure error that carries the
\* underlying cause, and with no other error.
C1_TransportFailureSurfaced ==
    (Completed /\ ~call.reply.ok)
        => /\ outcome.kind = "raise"
           /\ outcome.exc = "TransportFailure"
           /\ outcome.cause = call.reply.error

\* C2: a response with an "error" field and no "result" field makes
\* _send_request raise the remote-rejection error (exceptions.DoesntExist)
\* carrying exactly the value of the "error" field; nothing is returned.
C2_ErrorEnvelopeRaises ==
    (Completed /\ call.reply.ok
        /\ "error" \in DOMAIN call.reply.body /\ "result" \notin DOMAIN call.reply.body)
        => /\ outcome.kind = "raise"
           /\ outcome.exc = "DoesntExist"
           /\ outcome.val = call.reply.body.error

C2_Witness ==
    /\ Completed /\ call.reply.ok
    /\ call.reply.body = [error |-> "Invalid parameter"]
    /\ outcome.kind = "raise"

\* C3: a response with a "result" field makes _send_request return exactly
\* that field's value; a response with neither "result" nor "error" is
\* returned whole; neither case raises.
C3_ResultOrVerbatim ==
    (Completed /\ call.reply.ok)
        => /\ "result" \in DOMAIN call.reply.body
                => SendOutcome = [kind |-> "return",
                                  val |-> [t |-> "json", s |-> call.reply.body.result]]
           /\ ("result" \notin DOMAIN call.reply.body /\ "error" \notin DOMAIN call.reply.body)
                => SendOutcome = [kind |-> "return",
                                  val |-> [t |-> "dict", d |-> call.reply.body]]

C3_Witness ==
    /\ Completed /\ call.reply.ok
    /\ call.reply.body = [result |-> "null", error |-> "ignored"]
    /\ outcome.kind = "return"

\* a wrapper is called in this step
WrapperStep == pc = "idle" /\ (call' # call \/ outcome' # outcome \/ pc' # pc)

\* the guards of the specification, on the keyword arguments a wrapper hands
\* to validate
GuardViolated(args) ==
    LET Given(k) == k \in DictKeys(args)
        V(k) == DictGet(args, k)
        OneOf(k, allowed) == V(k).t = "str" /\ V(k).s \in allowed
    IN  \/ Given("limit") /\ V("limit").t = "int" /\ V("limit").i > 100
        \/ Given("side") /\ V("side") # None /\ ~OneOf("side", {"buy", "sell"})
        \/ Given("side_required") /\ ~OneOf("side_required", {"buy", "sell"})
        \/ Given("type_") /\ V("type_") # None
              /\ ~OneOf("type_", {"stop", "trailing_stop", "take_profit"})
        \/ Given("type_required") /\ ~OneOf("type_required", {"limit", "market"})
        \/ Given("order") /\ V("order") # None /\ ~OneOf("order", {"asc"})
        \/ Given("chain") /\ V("chain") # None
              /\ ~OneOf("chain", {"omni", "erc20", "trx", "sol", "bep2"})
        \/ Given("resolution")
              /\ ~(V("resolution").t = "int"
                   /\ V("resolution").i \in {15, 60, 300, 900, 3600, 14400, 86400})
        \/ Given("depth") /\ V("depth").t = "int"
              /\ (V("depth").i < 20 \/ V("depth").i > 100)

HeaderNames == DOMAIN call.headers
SignedHeaders == {"FTX-KEY", "FTX-SIGN", "FTX-TS"}

\* the endpoint starts with one of the private path prefixes
PrivatePath(endpoint) ==
    \E i \in 1..Len(PRIVATE_ENDPOINTS) :
        /\ Len(endpoint) >= Len(PRIVATE_ENDPOINTS[i])
        /\ SubSeq(endpoint, 1, Len(PRIVATE_ENDPOINTS[i])) = PRIVATE_ENDPOINTS[i]

\* a subaccount name was given at construction (None and the empty name are none)
SubaccountConfigured == client.subaccount # None /\ client.subaccount # S("")

\* C7: a request carries the key, signature and timestamp headers exactly
\* when its endpoint starts with a private path prefix; a public request
\* carries only Accept and User-Agent; a private request carries the
\* subaccount header exactly when a subaccount was configured.
C7_SignedHeadersIffPrivate ==
    call.sent
        => /\ PrivatePath(call.endpoint) <=> SignedHeaders \subseteq HeaderNames
           /\ ~PrivatePath(call.endpoint) => HeaderNames = {"Accept", "User-Agent"}
           /\ PrivatePath(call.endpoint)
                => /\ HeaderNames \ {"FTX-SUBACCOUNT"}
                        = {"Accept", "User-Agent", "Content-Type"} \cup SignedHeaders
                   /\ "FTX-SUBACCOUNT" \in HeaderNames <=> SubaccountConfigured
                   /\ call.headers["FTX-KEY"] = client.key

C7_Witness ==
    /\ call.sent /\ call.op = "get_order_status" /\ call.endpoint = "orders/123"
    /\ SignedHeaders \subseteq HeaderNames
    /\ "FTX-SUBACCOUNT" \in HeaderNames
    /\ client.subaccount = S("my sub")

\* the operations the interface lists as PUBLIC; every other one is PRIVATE
PublicOperations ==
    {"get_markets", "get_market", "get_orderbook", "get_recent_trades", "get_k_line",
     "get_futures", "get_perpetual_futures", "get_future", "get_future_stats",
     "get_funding_rates", "get_etf_future_index", "get_expired_futures", "get_index_k_line"}

\* C8: every operation listed as PRIVATE, the OTC quote operations included,
\* is dispatched with private scope and signed headers; every operation
\* listed as PUBLIC with public scope.
C8_ListedScopeIsDispatched ==
    call.sent
        => IF call.op \in PublicOperations
           THEN call.scope = "public" /\ SignedHeaders \cap HeaderNames = {}
           ELSE call.scope = "private" /\ SignedHeaders \subseteq HeaderNames

\* the depth an order-book call was made with
CallDepth == DictGet(call.args, "depth").i

\* C9: an order-book call with a depth below 20 or above 100 is rejected by
\* validation; one with a depth in [20, 100], both ends included, passes and
\* goes on to _send_request.
C9_DepthInclusive ==
    (call.op = "get_orderbook")
        => /\ (CallDepth < 20 \/ CallDepth > 100)
                => ~call.sent /\ outcome.kind = "raise" /\ outcome.exc = "Invalid"
           /\ (CallDepth >= 20 /\ CallDepth <= 100)
                => call.sent /\ call.query = << <<"depth", I(CallDepth)>> >>

C9_Witness ==
    /\ call.op = "get_orderbook" /\ CallDepth = 100 /\ call.sent
    /\ call.url = "https://ftx.com/api/markets/BTC/USD/orderbook?depth=100"

\* the limit a history call was made with
CallLimit == DictGet(call.args, "limit")

\* C10: a call validated on limit (order history, trigger-order history) with
\* limit 100 and its other parameters valid passes validation and goes on to
\* _send_request; with limit 101 it is rejected.
C10_LimitHundredAccepted ==
    (call.op \in {"get_order_history", "get_trigger_order_history"})
        => /\ (CallLimit = I(100) /\ ~GuardViolated(call.args)) => call.sent
           /\ CallLimit = I(101) => ~call.sent /\ outcome.kind = "raise"

\* the attempts of ts made within the trailing 60 seconds of time t
Recent(ts, t) == { i \in 1..Len(ts) : t - ts[i] < MaxAge }

Min(a, b) == IF a < b THEN a ELSE b

\* the entries of the rate window that are not older than 60 seconds
LiveEntries == { i \in 1..Len(requests) : now - requests[i].set_time < MaxAge }

PriorAttempts ==
    IF Completed THEN SubSeq(attempts, 1, Len(attempts) - 1) ELSE attempts

CallResolution == DictGet(call.args, "resolution").i

\* C11: a candle call (get_k_line, get_index_k_line) with resolution 300
\* passes validation and goes on to _send_request; with resolution 301 it is
\* rejected.
C11_ResolutionThreeHundredAccepted ==
    (call.op \in {"get_k_line", "get_index_k_line"})
        => /\ CallResolution = 300 => call.sent
           /\ CallResolution = 301 => ~call.sent /\ outcome.kind = "raise"

\* the last call handed keyword arguments to validate
Validated == call.op # "" /\ call.args # <<>>

\* every argument handed to validate has a value the guards can compare
\* (a limit is a number, not None)
ArgsComparable ==
    \A i \in 1..Len(call.args) : call.args[i][1] = "limit" => call.args[i][2].t = "int"

\* C12: a value that violates one of the eight guards makes validate raise
\* exceptions.Invalid and nothing else; a call that hands validate only some
\* of the guarded parameters, all of them valid, does not fail in validate.
C12_GuardsRaiseInvalidOnly ==
    Validated
        => /\ GuardViolated(call.args)
                => ~call.sent /\ outcome.kind = "raise" /\ outcome.exc = "Invalid"
           /\ (~GuardViolated(call.args) /\ ArgsComparable) => call.sent

\* C13: every HTTP call that _send_request makes (GET, POST or DELETE) is
\* given the timeout the client was constructed with.
C13_TimeoutApplied ==
    call.sent => call.timeout = I(client.timeout)

\* the base URL, one "/", and the endpoint
BaseUrl == "https://ftx.com/api/" \o call.endpoint

\* the query has a list-valued parameter
HasListValue(query) == \E i \in 1..Len(query) : query[i][2].t = "list"

\* the bracketed-repeat query string: key[]=v1&key[]=v2 for a list value
BracketedQuery(query) ==
    UrlEncode([i \in 1..Len(query) |->
                  IF query[i][2].t = "list"
                  THEN << query[i][1] \o "[]", query[i][2] >>
                  ELSE query[i]],
              TRUE, "/[]")

\* C14: the URL of a GET request whose query has a list-valued parameter
\* repeats the key with a bracket suffix once per element (key[]=v1&key[]=v2)
\* and never the bare key.
C14_ListsAreBracketed ==
    (call.sent /\ call.method = "GET" /\ HasListValue(call.query))
        => call.url = BaseUrl \o "?" \o BracketedQuery(call.query)

\* sub occurs in s
Contains(s, sub) ==
    \E i \in 1..(Len(s) - Len(sub) + 1) : SubSeq(s, i, i + Len(sub) - 1) = sub

IdleForMaxAge == \A i \in 1..Len(PriorAttempts) : call.at - PriorAttempts[i] >= MaxAge

----------------------------------------------------------------------------
(* Properties of SpecSend *)

\* a request built by the current instance is at its HTTP call
InFlight == pc = "http" /\ call.sent

\* the digest is an HMAC keyed by the secret
KeyedBy(digest, secret) == StartsWith(digest, "hmac(" \o secret \o ",")

\* C16: the secret is used only as the HMAC key: it occurs in no header
\* value other than as the key of the signature digest, not in the URL and
\* not in the body, for requests of either scope and any method.
C16_SecretNeverTransmitted ==
    InFlight
        => /\ \A h \in HeaderNames \ {"FTX-SIGN"} :
                ~Contains(call.headers[h], client.secret)
           /\ "FTX-SIGN" \in HeaderNames
                => KeyedBy(call.headers["FTX-SIGN"], client.secret)
           /\ ~Contains(call.url, client.secret)
           /\ call.body # None => ~Contains(call.body.s, client.secret)

\* a signed POST with a body on a subaccount
C16_Witness ==
    /\ InFlight /\ call.method = "POST" /\ call.scope = "private"
    /\ client.secret = "s3cr3t" /\ client.subaccount = S("my sub")
    /\ call.body = S("{\"market\": \"BTC/USD\"}")
    /\ DOMAIN call.headers = {"Accept", "User-Agent", "Content-Type", "FTX-KEY",
                              "FTX-SIGN", "FTX-TS", "FTX-SUBACCOUNT"}

\* the query as the signed payload carries it
Serialized(method, query) ==
    IF query = <<>> THEN ""
    ELSE IF method = "GET" THEN "?" \o UrlEncode(query, FALSE, "")
    ELSE JsonDumps(query)

\* the signature as a function of the five inputs
Signature(secret, nonce, method, endpoint, serialized) ==
    HmacSha256Hex(secret, nonce \o method \o "/api/" \o endpoint \o serialized)

\* C17: the signature of a private request is a function of the secret, the
\* nonce, the method, the endpoint and the serialized query or body, and of
\* nothing else: not of the key, the subaccount, the rate window or any
\* earlier request.
C17_SignatureDeterministic ==
    (InFlight /\ call.scope = "private")
        => call.headers["FTX-SIGN"]
             = Signature(client.secret, call.headers["FTX-TS"], call.method,
                         call.endpoint, Serialized(call.method, call.query))

\* the second request, made on another instance (another key, a subaccount)
\* after one was recorded
C17_Witness ==
    /\ InFlight /\ call.scope = "private" /\ call.method = "GET"
    /\ client.key = "KEY2" /\ client.subaccount = S("my sub")
    /\ Len(attempts) = 1 /\ Len(requests) = 1
    /\ call.headers["FTX-SIGN"]
         = "hmac(SECRET,1500GET/api/orders?coins=%5B%27BTC%27%2C+%27ETH%27%5D)"

\* what build_query returned, as a sequence of entries
BuiltQuery == outcome.val.d

\* C18: build_query returns exactly the supplied entries whose value is not
\* None, under the caller's key names, in the caller's order and with the
\* values unchanged; 0, False and the empty string are kept.
C18_BuildQueryDropsOnlyNone ==
    (call.op = "build_query")
        => /\ outcome.kind = "return"
           /\ \A i \in 1..Len(BuiltQuery) :
                BuiltQuery[i][2] # None /\ \E j \in 1..Len(call.args) : call.args[j] = BuiltQuery[i]
           /\ \A j \in 1..Len(call.args) :
                call.args[j][2] # None => \E i \in 1..Len(BuiltQuery) : BuiltQuery[i] = call.args[j]
           /\ \A i, k \in 1..Len(BuiltQuery) : i < k => BuiltQuery[i][1] # BuiltQuery[k][1]
           /\ \A i, k \in 1..Len(BuiltQuery) :
                i < k => \E j, l \in 1..Len(call.args) :
                            j < l /\ call.args[j] = BuiltQuery[i] /\ call.args[l] = BuiltQuery[k]

C18_Witness ==
    /\ call.op = "build_query"
    /\ call.args = << <<"limit", I(0)>>, <<"reduceOnly", B(FALSE)>>, <<"market", None>> >>
    /\ BuiltQuery = << <<"limit", I(0)>>, <<"reduceOnly", B(FALSE)>> >>

----------------------------------------------------------------------------
(* Properties of SpecThreads *)

\* the sends that were dispatched without a pause and are not yet recorded
UnpausedInFlight == { th \in Threads : pc[th] = "http" /\ ~call[th].paused }

\* C19: the throttle check and the record of a send exclude one another
\* between threads: no attempt's record is lost, and the sends dispatched
\* without a pause never exceed, together with the attempts already recorded
\* in the window, the cap of 30 (two threads cannot both see 29 and both go on).
C19_CheckAndRecordExclusive ==
    /\ Cardinality(LiveEntries)
        = Min(Cardinality(Recent(attempts, now)), RATE_LIMIT_PER_SECOND)
    /\ Cardinality(LiveEntries) + Cardinality(UnpausedInFlight) <= RATE_LIMIT_PER_SECOND

----------------------------------------------------------------------------
(* Properties of Spec: what is signed and what is sent *)

\* the query string of the request URL: what follows the endpoint and "?"
UrlQueryString == SubSeq(call.url, Len(BaseUrl) + 2, Len(call.url))

\* C21: for a private GET request with a non-empty query, the query string
\* in the signed payload is the query string of the request URL: the
\* signature is the digest of nonce, method, "/api/", endpoint, "?" and the
\* URL's query string.
C21_SignedQueryIsUrlQuery ==
    (call.sent /\ call.scope = "private" /\ call.method = "GET" /\ call.query # <<>>)
        => call.headers["FTX-SIGN"]
             = HmacSha256Hex(client.secret,
                             call.headers["FTX-TS"] \o "GET" \o "/api/" \o call.endpoint
                                 \o "?" \o UrlQueryString)

\* C22: no wrapper sends a query or body entry whose value is None: a
\* parameter the caller leaves unset is absent from the request.
C22_NoUnsetEntrySent ==
    call.sent => \A i \in 1..Len(call.query) : call.query[i][2] # None

\* C23: every wrapper passes _send_request a non-empty path without a
\* leading slash (and without a query string of its own), so the URL is the
\* base URL, one "/", and the endpoint.
C23_EndpointIsPath ==
    call.sent
        => /\ call.endpoint # ""
           /\ ~StartsWith(call.endpoint, "/")
           /\ ~Contains(call.endpoint, "?")
           /\ ~Contains(call.url, "/api//")

====
